---- MODULE Spec2Model ----
(***************************************************************************)
(* Model of the SNMP exporter of src/main.go: the /snmp handler, the       *)
(* collector's Collect (retrieval, metric tree, PDU matching), and the     *)
(* index decoder indexesToLabels with splitOid and the lookups.            *)
(*                                                                         *)
(* A Go string is modelled as the sequence of its bytes (numbers 0..255),  *)
(* so that formatting, parsing and string comparison are computed, not     *)
(* assumed: "1.2" is <<49, 46, 50>>.  Label names, metric names, module    *)
(* names and targets are never taken apart by the code that is modelled    *)
(* and stay TLA+ strings.                                                  *)
(***************************************************************************)
EXTENDS Integers, Sequences, FiniteSets, TLC

VARIABLES
    \* ---- the process and the request being served (handler, Collect)
    pc,                 \* where the process is
    target,             \* r.URL.Query().Get("target") of the request
    moduleName,         \* r.URL.Query().Get("module") of the request
    cfg,                \* what LoadFile returned for the request: the modules' names
    status,             \* HTTP status written for the request (0: none yet)
    snmpRequestErrors,  \* the process-wide error counter
    snmpDuration,       \* observations made on the process-wide summary
    errorsBefore,       \* snmpRequestErrors when the request arrived
    requests,           \* requests received so far
    module,             \* collector.module
    walked,             \* subtrees of config.Walk retrieved so far
    result,             \* ScrapeTarget's result slice
    scrapeErr,          \* ScrapeTarget returned an error
    ch,                 \* what Collect sent on its channel, in order
    oidToPdu,           \* Collect's map from OID string to PDU
    metricTree,         \* Collect's tree of the module's metrics
    todo,               \* keys of oidToPdu the range loop has yet to visit
    calls,              \* the calls of pduToSample, in order
    \* ---- one call of indexesToLabels
    dPc,                \* "indexes" | "lookups" | "done" | "panic"
    dIndexOids,         \* the indexOids argument
    dMetric,            \* the metric argument (Indexes, Lookups)
    dOidToPdu,          \* the oidToPdu argument
    dSt,                \* the locals: indexOids, labels, labelOids, panic
    dI,                 \* indexes decoded so far
    dJ,                 \* lookups performed so far
    dLookupOid,         \* the oid string the last lookup built
    \* ---- one call of splitOid
    sPc,                \* "call" | "ret"
    sOid,               \* the oid argument
    sCount,             \* the count argument
    sHead,              \* the first result
    sTail               \* the second result

hvars == <<pc, target, moduleName, cfg, status, snmpRequestErrors, snmpDuration,
           errorsBefore, requests, module, walked, result, scrapeErr, ch,
           oidToPdu, metricTree, todo, calls>>
dvars == <<dPc, dIndexOids, dMetric, dOidToPdu, dSt, dI, dJ, dLookupOid>>
svars == <<sPc, sOid, sCount, sHead, sTail>>
vars == <<hvars, dvars, svars>>

(***************************************************************************)
(* Bounds of the model.                                                    *)
(***************************************************************************)
MaxRequests == 1     \* requests the process serves
MaxMetrics == 2      \* metrics of a module
MaxWalk == 2         \* root OIDs of a module's Walk list
MaxSuffixLen == 3    \* components of an index suffix given to the decoder
MaxIndexes == 2      \* Index specs of a metric
MaxLookupLabels == 2 \* labels a Lookup spec references
MaxLookups == 1      \* Lookup specs of a metric
MaxOidLen == 3       \* components of splitOid's oid
MaxCount == 3        \* splitOid's count

(***************************************************************************)
(* Sequences and maps.                                                     *)
(***************************************************************************)
SeqsUpTo(S, n) == UNION {[1..k -> S] : k \in 0..n}

\* m[k] = v, as a Go map assignment: the key is added when missing.
MapPut(m, k, v) == [x \in DOMAIN m \cup {k} |-> IF x = k THEN v ELSE m[x]]

EmptyMap == [x \in {} |-> 0]

(***************************************************************************)
(* Go's formatting and parsing, on byte sequences.                         *)
(***************************************************************************)
RECURSIVE DecDigits(_)
DecDigits(n) ==
    IF n < 10 THEN <<48 + n>> ELSE DecDigits(n \div 10) \o <<48 + (n % 10)>>

\* fmt.Sprintf("%d", n)
FmtD(n) == IF n < 0 THEN <<45>> \o DecDigits(0 - n) ELSE DecDigits(n)

RECURSIVE HexDigits(_)
HexDigits(n) ==
    LET d == n % 16
        c == IF d < 10 THEN 48 + d ELSE 55 + d
    IN  IF n < 16 THEN <<c>> ELSE HexDigits(n \div 16) \o <<c>>

\* fmt.Sprintf("%02X", n): upper-case hex, zero-padded to width 2.
Fmt02X(n) ==
    LET body == IF n < 0 THEN <<45>> \o HexDigits(0 - n) ELSE HexDigits(n)
    IN  IF Len(body) < 2 THEN <<48>> \o body ELSE body

\* string(n) of an integer n: the UTF-8 encoding of the code point n, and of
\* U+FFFD when n is no valid code point.
IntToString(n) ==
    IF n < 0 \/ n > 1114111 \/ (n >= 55296 /\ n <= 57343) THEN <<239, 191, 189>>
    ELSE IF n < 128 THEN <<n>>
    ELSE IF n < 2048 THEN <<192 + (n \div 64), 128 + (n % 64)>>
    ELSE IF n < 65536
         THEN <<224 + (n \div 4096), 128 + ((n \div 64) % 64), 128 + (n % 64)>>
    ELSE <<240 + (n \div 262144), 128 + ((n \div 4096) % 64),
           128 + ((n \div 64) % 64), 128 + (n % 64)>>

\* strings.Join(parts, sep)
RECURSIVE StringsJoin(_, _)
StringsJoin(parts, sep) ==
    IF parts = <<>> THEN <<>>
    ELSE IF Len(parts) = 1 THEN parts[1]
    ELSE parts[1] \o sep \o StringsJoin(Tail(parts), sep)

\* strings.Split(s, sep) for a one-byte separator.
RECURSIVE StringsSplit(_, _)
StringsSplit(s, sep) ==
    IF \E i \in DOMAIN s : s[i] = sep
    THEN LET i == CHOOSE i \in DOMAIN s :
                      s[i] = sep /\ \A j \in 1..(i - 1) : s[j] # sep
         IN  <<SubSeq(s, 1, i - 1)>> \o StringsSplit(SubSeq(s, i + 1, Len(s)), sep)
    ELSE <<s>>

RECURSIVE DigitsValue(_)
DigitsValue(ds) ==
    IF ds = <<>> THEN 0
    ELSE 10 * DigitsValue(SubSeq(ds, 1, Len(ds) - 1)) + (ds[Len(ds)] - 48)

\* o, _ := strconv.Atoi(x): an optional sign and decimal digits; 0 when x is
\* not a number (the error is dropped).
Atoi(x) ==
    LET signed == x # <<>> /\ x[1] \in {43, 45}
        body == IF signed THEN Tail(x) ELSE x
    IN  IF body = <<>> \/ \E i \in DOMAIN body : body[i] < 48 \/ body[i] > 57
        THEN 0
        ELSE IF signed /\ x[1] = 45 THEN 0 - DigitsValue(body)
        ELSE DigitsValue(body)

OidToList(oid) ==
    LET parts == StringsSplit(oid, 46)
    IN  [i \in 1..Len(parts) |-> Atoi(parts[i])]

(***************************************************************************)
(* splitOid.  The loop index i of the Go code is 0-based: position k of    *)
(* oid (1-based here) has i = k - 1.                                       *)
(***************************************************************************)
Max(a, b) == IF a > b THEN a ELSE b

splitOid(oid, count) ==
    [head |-> [k \in 1..count |-> IF k <= Len(oid) THEN oid[k] ELSE 0],
     tail |-> [k \in 1..Max(Len(oid) - count, 0) |-> count + k - 1]]

(***************************************************************************)
(* Configuration and PDUs.                                                 *)
(*   Index  : [Labelname, Type]                                            *)
(*   Lookup : [Labels, Labelname, Oid]                                     *)
(*   Metric : [Name, Oid, Indexes, Lookups]                                *)
(*   Module : [Walk, Metrics]                                              *)
(*   PDU    : [Name, Type, Value], Value a [kind, v] for the Go dynamic    *)
(*            type of pdu.Value and the value itself                       *)
(***************************************************************************)
IndexTypes == {"Integer32", "PhysAddress48", "OctetString", "InetAddress",
               "IpAddress", "InetAddressType"}

\* fmt.Sprintf("%s", nil)
FmtSNil == <<37, 33, 115, 40, 60, 110, 105, 108, 62, 41>>

pduValueAsString(pdu) ==
    CASE pdu.Value.kind \in {"int", "uint", "int64"} -> IntToString(pdu.Value.v)
      [] pdu.Value.kind = "string" ->
            IF pdu.Type = "ObjectIdentifier" THEN Tail(pdu.Value.v)
            ELSE pdu.Value.v
      [] pdu.Value.kind = "bytes" -> pdu.Value.v
      [] OTHER -> FmtSNil

\* gosnmp.ToBigInt(pdu.Value).Int64(): the integer kinds keep their value, every
\* other kind is 0.
ToBigInt(pdu) ==
    IF pdu.Value.kind \in {"int", "uint", "int64"} THEN pdu.Value.v ELSE 0

(***************************************************************************)
(* indexesToLabels.  Its locals are the record                             *)
(*   [indexOids, labels, labelOids, panic]                                 *)
(* panic is the Go runtime's: an index out of range.                       *)
(***************************************************************************)
DecodeStart(indexOids) ==
    [indexOids |-> indexOids, labels |-> EmptyMap, labelOids |-> EmptyMap,
     panic |-> FALSE]

\* One of the locals st with this iteration's results.
Decoded(st, index, rest, subOid, label) ==
    [indexOids |-> rest,
     labels    |-> MapPut(st.labels, index.Labelname, label),
     labelOids |-> MapPut(st.labelOids, index.Labelname, subOid),
     panic     |-> FALSE]

\* The iteration stopped by a runtime panic, labelOids already assigned.
Panicked(st, index, rest, subOid) ==
    [indexOids |-> rest,
     labels    |-> st.labels,
     labelOids |-> MapPut(st.labelOids, index.Labelname, subOid),
     panic     |-> TRUE]

DecodeInteger32(st, index) ==
    LET s == splitOid(st.indexOids, 1)
    IN  Decoded(st, index, s.tail, s.head, FmtD(s.head[1]))

DecodePhysAddress48(st, index) ==
    LET s == splitOid(st.indexOids, 6)
        parts == [i \in 1..6 |-> Fmt02X(s.head[i])]
    IN  Decoded(st, index, s.tail, s.head, StringsJoin(parts, <<58>>))

DecodeOctetString(st, index) ==
    LET s == splitOid(st.indexOids, 1)
        length == s.head[1]
        c == splitOid(s.tail, length)
        parts == [i \in 1..length |-> c.head[i] % 256]
    IN  Decoded(st, index, c.tail, s.head \o c.head, parts)

DecodeInetAddress(st, index) ==
    LET addressType == splitOid(st.indexOids, 1)
        octets == splitOid(addressType.tail, 1)
        address == splitOid(octets.tail, octets.head[1])
        subOid == addressType.head \o octets.head \o address.head
        n == Len(address.head)
    IN  IF addressType.head[1] = 1
        THEN \* parts has 4 slots, one written per component of address
             IF n > 4 THEN Panicked(st, index, address.tail, subOid)
             ELSE LET parts == [i \in 1..4 |->
                                   IF i <= n THEN IntToString(address.head[i])
                                   ELSE <<>>]
                  IN  Decoded(st, index, address.tail, subOid,
                              StringsJoin(parts, <<46>>))
        ELSE IF addressType.head[1] = 2
        THEN \* reads address[0..15]
             IF n < 16 THEN Panicked(st, index, address.tail, subOid)
             ELSE LET parts == [i \in 1..8 |->
                                   Fmt02X(address.head[2 * i - 1])
                                       \o Fmt02X(address.head[2 * i])]
                  IN  Decoded(st, index, address.tail, subOid,
                              StringsJoin(parts, <<58>>))
        ELSE [indexOids |-> address.tail,
              labels    |-> st.labels,
              labelOids |-> MapPut(st.labelOids, index.Labelname, subOid),
              panic     |-> FALSE]

\* parts := make([]string, 3), then one write per component of the 4 of subOid
IpAddressParts == 3

DecodeIpAddress(st, index) ==
    LET s == splitOid(st.indexOids, 4)
    IN  IF Len(s.head) > IpAddressParts
        THEN Panicked(st, index, s.tail, s.head)
        ELSE LET parts == [i \in 1..IpAddressParts |->
                              IF i <= Len(s.head) THEN IntToString(s.head[i])
                              ELSE <<>>]
             IN  Decoded(st, index, s.tail, s.head, StringsJoin(parts, <<46>>))

DecodeInetAddressType(st, index) ==
    LET s == splitOid(st.indexOids, 1)
        v == s.head[1]
        label == CASE v = 0 -> <<117, 110, 107, 110, 111, 119, 110>>  \* "unknown"
                   [] v = 1 -> <<105, 112, 118, 52>>                   \* "ipv4"
                   [] v = 2 -> <<105, 112, 118, 54>>                   \* "ipv6"
                   [] v = 3 -> <<105, 112, 118, 52, 118>>              \* "ipv4v"
                   [] v = 4 -> <<105, 112, 118, 54, 118>>              \* "ipv6v"
                   [] v = 16 -> <<100, 110, 115>>                      \* "dns"
                   [] OTHER -> IntToString(v)
    IN  Decoded(st, index, s.tail, s.head, label)

\* The body of the loop over metric.Indexes; a type the switch does not name
\* changes nothing.
DecodeIndex(st, index) ==
    CASE index.Type = "Integer32" -> DecodeInteger32(st, index)
      [] index.Type = "PhysAddress48" -> DecodePhysAddress48(st, index)
      [] index.Type = "OctetString" -> DecodeOctetString(st, index)
      [] index.Type = "InetAddress" -> DecodeInetAddress(st, index)
      [] index.Type = "IpAddress" -> DecodeIpAddress(st, index)
      [] index.Type = "InetAddressType" -> DecodeInetAddressType(st, index)
      [] OTHER -> st

\* The oid string a lookup builds: fmt.Sprintf("%s.%d", oid, o) for every o of
\* labelOids[label], for every label of lookup.Labels; a label with no entry
\* in labelOids reads as nil and adds nothing.
RECURSIVE DotPrefixed(_)
DotPrefixed(os) ==
    IF os = <<>> THEN <<>>
    ELSE IF Len(os) = 1 THEN <<46>> \o FmtD(os[1])
    ELSE LET h == Len(os) \div 2
         IN  DotPrefixed(SubSeq(os, 1, h)) \o DotPrefixed(SubSeq(os, h + 1, Len(os)))

AppendOids(oid, os) == oid \o DotPrefixed(os)

\* The variant that takes the referenced labels last to first.
RECURSIVE LookupOidLastFirst(_, _, _)
LookupOidLastFirst(oid, labels, labelOids) ==
    IF labels = <<>> THEN oid
    ELSE LET last == labels[Len(labels)]
             os == IF last \in DOMAIN labelOids THEN labelOids[last] ELSE <<>>
         IN  LookupOidLastFirst(AppendOids(oid, os),
                                SubSeq(labels, 1, Len(labels) - 1), labelOids)

RECURSIVE LookupOid(_, _, _)
LookupOid(oid, labels, labelOids) ==
    IF labels = <<>> THEN oid
    ELSE LET os == IF Head(labels) \in DOMAIN labelOids
                   THEN labelOids[Head(labels)] ELSE <<>>
         IN  LookupOid(AppendOids(oid, os), Tail(labels), labelOids)

\* The body of the loop over metric.Lookups.
PerformLookup(st, lookup, pdus) ==
    LET oid == LookupOid(lookup.Oid, lookup.Labels, st.labelOids)
    IN  IF oid \in DOMAIN pdus
        THEN [st EXCEPT !.labels =
                 MapPut(st.labels, lookup.Labelname, pduValueAsString(pdus[oid]))]
        ELSE st

RECURSIVE DecodeIndexes(_, _)
DecodeIndexes(st, indexes) ==
    IF indexes = <<>> \/ st.panic THEN st
    ELSE DecodeIndexes(DecodeIndex(st, Head(indexes)), Tail(indexes))

RECURSIVE PerformLookups(_, _, _)
PerformLookups(st, lookups, pdus) ==
    IF lookups = <<>> \/ st.panic THEN st
    ELSE PerformLookups(PerformLookup(st, Head(lookups), pdus), Tail(lookups), pdus)

\* The whole function: the locals when it returns, or when it panics.
indexesToLabels(indexOids, metric, pdus) ==
    PerformLookups(DecodeIndexes(DecodeStart(indexOids), metric.Indexes),
                   metric.Lookups, pdus)

(***************************************************************************)
(* ScrapeTarget.  The SNMP client is external: Connect and each walk either*)
(* succeed or fail, and a walk that succeeds returns the device's PDUs     *)
(* below the subtree, in the device's order.                               *)
(***************************************************************************)
IsPrefix(p, l) == Len(p) <= Len(l) /\ SubSeq(l, 1, Len(p)) = p

\* The device's PDUs in walk order: ".1.1.1", ".1.1.2.5", ".1.2.5".
DevicePdus ==
    << [Name |-> <<46, 49, 46, 49, 46, 49>>, Type |-> "Integer",
        Value |-> [kind |-> "int", v |-> 10]],
       [Name |-> <<46, 49, 46, 49, 46, 50, 46, 53>>, Type |-> "Integer",
        Value |-> [kind |-> "int", v |-> 20]],
       [Name |-> <<46, 49, 46, 50, 46, 53>>, Type |-> "OctetString",
        Value |-> [kind |-> "bytes", v |-> <<101, 48>>]] >>

RECURSIVE SelectPdus(_, _)
SelectPdus(pdus, root) ==
    IF pdus = <<>> THEN <<>>
    ELSE LET name == OidToList(Tail(Head(pdus).Name))
             rest == SelectPdus(Tail(pdus), root)
         IN  IF IsPrefix(root, name) /\ name # root THEN <<Head(pdus)>> \o rest
             ELSE rest

\* snmp.BulkWalkAll(subtree) when it succeeds.
BulkWalkAll(subtree) == SelectPdus(DevicePdus, OidToList(subtree))

\* net.SplitHostPort(target) succeeds, and strconv.Atoi(port) succeeds, for
\* the targets of the model.
HasPort(t) == t \in {"switch:161", "switch:snmp"}
PortIsNumber(t) == t = "switch:161"

(***************************************************************************)
(* The metric tree.  A tree is a function from the paths of its nodes to   *)
(* the place in metrics of the metric the node carries, 0 for none; node p *)
(* has child o when p \o <<o>> is a node.                                  *)
(***************************************************************************)
NewTree == (<<>> :> 0)

\* The loop body of buildMetricTree for the k-th metric, of OID list l.
AddMetric(tree, l, k) ==
    [p \in DOMAIN tree \cup {SubSeq(l, 1, n) : n \in 0..Len(l)} |->
        IF p = l THEN k
        ELSE IF p \in DOMAIN tree THEN tree[p]
        ELSE 0]

RECURSIVE BuildFrom(_, _, _)
BuildFrom(tree, metrics, k) ==
    IF k > Len(metrics) THEN tree
    ELSE BuildFrom(AddMetric(tree, OidToList(metrics[k].Oid), k), metrics, k + 1)

buildMetricTree(metrics) == BuildFrom(NewTree, metrics, 1)

\* The variant of the walk below that goes on past a node carrying a metric
\* while the OID has a child there, committing at the deepest one.
RECURSIVE MatchDeepestFrom(_, _, _)
MatchDeepestFrom(tree, oidList, i) ==
    IF i > Len(oidList) \/ SubSeq(oidList, 1, i) \notin DOMAIN tree
    THEN [found |-> FALSE, metric |-> 0, indexOids |-> <<>>]
    ELSE LET deeper == MatchDeepestFrom(tree, oidList, i + 1)
         IN  IF deeper.found THEN deeper
             ELSE IF tree[SubSeq(oidList, 1, i)] # 0
             THEN [found |-> TRUE, metric |-> tree[SubSeq(oidList, 1, i)],
                   indexOids |-> SubSeq(oidList, i + 1, Len(oidList))]
             ELSE deeper

\* The inner loop of Collect over oidList from its i-th component: the walk
\* down the tree, which ends at the first node carrying a metric.
RECURSIVE MatchFrom(_, _, _)
MatchFrom(tree, oidList, i) ==
    IF i > Len(oidList) \/ SubSeq(oidList, 1, i) \notin DOMAIN tree
    THEN [found |-> FALSE, metric |-> 0, indexOids |-> <<>>]
    ELSE IF tree[SubSeq(oidList, 1, i)] # 0
    THEN [found |-> TRUE, metric |-> tree[SubSeq(oidList, 1, i)],
          indexOids |-> SubSeq(oidList, i + 1, Len(oidList))]
    ELSE MatchFrom(tree, oidList, i + 1)

\* oidToPdu[pdu.Name[1:]] = pdu for every pdu, in order: the last one of a
\* name stays.
RECURSIVE PdusByOid(_, _)
PdusByOid(m, pdus) ==
    IF pdus = <<>> THEN m
    ELSE PdusByOid(MapPut(m, Tail(Head(pdus).Name), Head(pdus)), Tail(pdus))

\* One bookkeeping observation; a duration is whatever the clock says.
Gauge(name, value) == [name |-> name, labels |-> EmptyMap, value |-> value]

\* pduToSample, given the locals indexesToLabels returned with.
Sample(metric, pdu, st) ==
    [name |-> metric.Name, labels |-> st.labels, value |-> ToBigInt(pdu)]

(***************************************************************************)
(* The three machines share one set of variables; a specification runs one *)
(* of them and holds the others at rest.                                   *)
(***************************************************************************)
NoModule == [Walk |-> <<>>, Metrics |-> <<>>]
NoMetric == [Name |-> "", Oid |-> <<>>, Indexes |-> <<>>, Lookups |-> <<>>]

HandlerAtRest ==
    /\ pc = "idle"
    /\ target = ""
    /\ moduleName = ""
    /\ cfg = [loaded |-> "no", modules |-> {}]
    /\ status = 0
    /\ snmpRequestErrors = 0
    /\ snmpDuration = 0
    /\ errorsBefore = 0
    /\ requests = 0
    /\ module = NoModule
    /\ walked = 0
    /\ result = <<>>
    /\ scrapeErr = FALSE
    /\ ch = <<>>
    /\ oidToPdu = EmptyMap
    /\ metricTree = NewTree
    /\ todo = {}
    /\ calls = <<>>

DecoderAtRest ==
    /\ dPc = "off"
    /\ dIndexOids = <<>>
    /\ dMetric = NoMetric
    /\ dOidToPdu = EmptyMap
    /\ dSt = DecodeStart(<<>>)
    /\ dI = 0
    /\ dJ = 0
    /\ dLookupOid = <<>>

SplitAtRest ==
    /\ sPc = "off"
    /\ sOid = <<>>
    /\ sCount = 0
    /\ sHead = <<>>
    /\ sTail = <<>>

(***************************************************************************)
(* The requests and configurations of the model.                           *)
(***************************************************************************)
Targets == {"", "switch", "switch:161", "switch:snmp"}
ModuleNames == {"", "if_mib"}

\* "1", "1.1.2": the second subtree lies inside the first.
WalkRoots == {<<49>>, <<49, 46, 49, 46, 50>>}

\* The metrics a module is made of: at "1.1" and at "1.x" an Integer32 index a
\* with a lookup of "1.2" by a; at "1.1.2" the same, or an IpAddress index a.
\* "1.1" is a strict prefix of "1.1.2", and "1.x" has a component that is no
\* number.
MetricChoices ==
    LET ifIndex == <<[Labelname |-> "a", Type |-> "Integer32"]>>
        ifDescr == <<[Labels |-> <<"a">>, Labelname |-> "d", Oid |-> <<49, 46, 50>>]>>
        ipAddr == <<[Labelname |-> "a", Type |-> "IpAddress"]>>
    IN  {[Oid |-> <<49, 46, 49>>, Indexes |-> ifIndex, Lookups |-> ifDescr],
         [Oid |-> <<49, 46, 120>>, Indexes |-> ifIndex, Lookups |-> ifDescr],
         [Oid |-> <<49, 46, 49, 46, 50>>, Indexes |-> ifIndex, Lookups |-> ifDescr],
         [Oid |-> <<49, 46, 49, 46, 50>>, Indexes |-> ipAddr, Lookups |-> <<>>]}

MetricName(k) == <<"m1", "m2", "m3", "m4">>[k]

MetricLists ==
    UNION {{[k \in 1..n |-> [Name |-> MetricName(k), Oid |-> c[k].Oid,
                             Indexes |-> c[k].Indexes, Lookups |-> c[k].Lookups]] :
               c \in [1..n -> MetricChoices]} :
           n \in 0..MaxMetrics}

Modules == {[Walk |-> w, Metrics |-> ms] :
               w \in SeqsUpTo(WalkRoots, MaxWalk), ms \in MetricLists}

NoConfig == [loaded |-> "no", modules |-> {}]

(***************************************************************************)
(* handler: one request at a time.                                         *)
(***************************************************************************)
Init ==
    /\ pc = "idle"
    /\ target = ""
    /\ moduleName = ""
    /\ cfg = NoConfig
    /\ status = 0
    /\ snmpRequestErrors = 0
    /\ snmpDuration = 0
    /\ errorsBefore = 0
    /\ requests = 0
    /\ module = NoModule
    /\ walked = 0
    /\ result = <<>>
    /\ scrapeErr = FALSE
    /\ ch = <<>>
    /\ oidToPdu = EmptyMap
    /\ metricTree = NewTree
    /\ todo = {}
    /\ calls = <<>>
    /\ DecoderAtRest
    /\ SplitAtRest

scrapeVars == <<module, walked, result, scrapeErr, ch, oidToPdu, metricTree, todo,
                calls>>
requestVars == <<target, moduleName, errorsBefore, requests>>

\* A request arrives at /snmp; what a scrape works on is allocated per request.
Request ==
    /\ pc = "idle"
    /\ requests < MaxRequests
    /\ requests' = requests + 1
    /\ target' \in Targets
    /\ moduleName' \in ModuleNames
    /\ errorsBefore' = snmpRequestErrors
    /\ cfg' = NoConfig
    /\ status' = 0
    /\ module' = NoModule
    /\ walked' = 0
    /\ result' = <<>>
    /\ scrapeErr' = FALSE
    /\ ch' = <<>>
    /\ oidToPdu' = EmptyMap
    /\ metricTree' = NewTree
    /\ todo' = {}
    /\ calls' = <<>>
    /\ pc' = "loadfile"
    /\ UNCHANGED <<snmpRequestErrors, snmpDuration, dvars, svars>>

\* LoadFile fails: 400, logged, return.
LoadFileError ==
    /\ pc = "loadfile"
    /\ cfg' = [loaded |-> "error", modules |-> {}]
    /\ status' = 400
    /\ pc' = "idle"
    /\ UNCHANGED <<snmpRequestErrors, snmpDuration, requestVars, scrapeVars,
                   dvars, svars>>

\* LoadFile returns the configuration, here of one module, "default"; what
\* the module holds is read when the handler looks it up.
LoadFileOk ==
    /\ pc = "loadfile"
    /\ cfg' = [loaded |-> "ok", modules |-> {"default"}]
    /\ pc' = "target"
    /\ UNCHANGED <<status, snmpRequestErrors, snmpDuration, requestVars, scrapeVars,
                   dvars, svars>>

\* The variant that answers 400 without counting the error.
MissingTargetUncounted ==
    /\ pc = "target"
    /\ target = ""
    /\ status' = 400
    /\ pc' = "idle"
    /\ UNCHANGED <<cfg, snmpRequestErrors, snmpDuration, requestVars, scrapeVars,
                   dvars, svars>>

\* target == "": 400, the error counted, return.
MissingTarget ==
    /\ pc = "target"
    /\ target = ""
    /\ status' = 400
    /\ snmpRequestErrors' = snmpRequestErrors + 1
    /\ pc' = "idle"
    /\ UNCHANGED <<cfg, snmpDuration, requestVars, scrapeVars, dvars, svars>>

\* The module the request names, "default" when it names none.
RequestedModule == IF moduleName = "" THEN "default" ELSE moduleName

\* The configuration has no such module: 400, the error counted, return.
UnknownModule ==
    /\ pc = "target"
    /\ target # ""
    /\ RequestedModule \notin cfg.modules
    /\ status' = 400
    /\ snmpRequestErrors' = snmpRequestErrors + 1
    /\ pc' = "idle"
    /\ UNCHANGED <<cfg, snmpDuration, requestVars, scrapeVars, dvars, svars>>

\* The collector is registered and ServeHTTP calls its Collect, which calls
\* ScrapeTarget.
ServeHTTP ==
    /\ pc = "target"
    /\ target # ""
    /\ RequestedModule \in cfg.modules
    /\ module' \in Modules
    /\ pc' = "scrape"
    /\ UNCHANGED <<cfg, status, snmpRequestErrors, snmpDuration, requestVars,
                   walked, result, scrapeErr, ch, oidToPdu, metricTree, todo, calls,
                   dvars, svars>>

(***************************************************************************)
(* ScrapeTarget and Collect.                                               *)
(***************************************************************************)
handlerVars == <<cfg, status, snmpRequestErrors, snmpDuration, requestVars>>

\* The target has a port that is no number: return nil, error.
BadPort ==
    /\ pc = "scrape"
    /\ HasPort(target)
    /\ ~PortIsNumber(target)
    /\ scrapeErr' = TRUE
    /\ pc' = "scraped"
    /\ UNCHANGED <<handlerVars, module, walked, result, ch, oidToPdu, metricTree, todo,
                   calls, dvars, svars>>

\* snmp.Connect() fails: return nil, error.
ConnectError ==
    /\ pc = "scrape"
    /\ HasPort(target) => PortIsNumber(target)
    /\ scrapeErr' = TRUE
    /\ pc' = "scraped"
    /\ UNCHANGED <<handlerVars, module, walked, result, ch, oidToPdu, metricTree, todo,
                   calls, dvars, svars>>

\* snmp.Connect() succeeds.
Connect ==
    /\ pc = "scrape"
    /\ HasPort(target) => PortIsNumber(target)
    /\ pc' = "walk"
    /\ UNCHANGED <<handlerVars, scrapeVars, dvars, svars>>

\* The walk of the next subtree succeeds: its PDUs are appended to result.
WalkSubtree ==
    /\ pc = "walk"
    /\ walked < Len(module.Walk)
    /\ result' = result \o BulkWalkAll(module.Walk[walked + 1])
    /\ walked' = walked + 1
    /\ UNCHANGED <<pc, handlerVars, module, scrapeErr, ch, oidToPdu, metricTree, todo,
                   calls, dvars, svars>>

\* The walk of the next subtree fails: return nil, error.
WalkError ==
    /\ pc = "walk"
    /\ walked < Len(module.Walk)
    /\ result' = <<>>
    /\ scrapeErr' = TRUE
    /\ pc' = "scraped"
    /\ UNCHANGED <<handlerVars, module, walked, ch, oidToPdu, metricTree, todo, calls,
                   dvars, svars>>

\* Every subtree is walked: return result, nil.
WalkDone ==
    /\ pc = "walk"
    /\ walked = Len(module.Walk)
    /\ pc' = "scraped"
    /\ UNCHANGED <<handlerVars, scrapeVars, dvars, svars>>

\* The observations Collect sends once ScrapeTarget has returned, and its map.
CollectSendWalk ==
    /\ ch' = ch \o <<Gauge("snmp_scrape_walk_duration_seconds", "elapsed"),
                     Gauge("snmp_scrape_pdus_returned", Len(result))>>
    /\ oidToPdu' = PdusByOid(EmptyMap, result)
    /\ metricTree' = buildMetricTree(module.Metrics)
    /\ todo' = DOMAIN oidToPdu'
    /\ pc' = "pduloop"
    /\ UNCHANGED <<handlerVars, module, walked, result, scrapeErr, calls, dvars, svars>>

\* The variant of Collect's error branch that logs and does not return.
CollectScrapeErrorNoReturn ==
    /\ pc = "scraped"
    /\ scrapeErr
    /\ CollectSendWalk

\* err != nil: log and return.
CollectScrapeError ==
    /\ pc = "scraped"
    /\ scrapeErr
    /\ pc' = "collected"
    /\ UNCHANGED <<handlerVars, scrapeVars, dvars, svars>>

\* err == nil: the walk's two observations, oidToPdu and the metric tree.
CollectPdus ==
    /\ pc = "scraped"
    /\ ~scrapeErr
    /\ CollectSendWalk

\* One iteration of PduLoop, on any key the range has not visited: a match
\* calls pduToSample, whose panic ends the process.
PduLoopStep ==
    /\ pc = "pduloop"
    /\ \E oid \in todo :
          LET m == MatchFrom(metricTree, OidToList(oid), 1)
              metric == module.Metrics[m.metric]
              st == indexesToLabels(m.indexOids, metric, oidToPdu)
          IN  /\ todo' = todo \ {oid}
              /\ IF ~m.found
                 THEN UNCHANGED <<pc, ch, calls>>
                 ELSE /\ calls' = Append(calls, [oid |-> oid, metric |-> m.metric,
                                                 indexOids |-> m.indexOids])
                      /\ IF st.panic
                         THEN pc' = "crashed" /\ UNCHANGED ch
                         ELSE /\ ch' = Append(ch, Sample(metric, oidToPdu[oid], st))
                              /\ UNCHANGED pc
    /\ UNCHANGED <<handlerVars, module, walked, result, scrapeErr, oidToPdu, metricTree,
                   dvars, svars>>

\* The range is over: the scrape's duration is sent and Collect returns.
CollectDone ==
    /\ pc = "pduloop"
    /\ todo = {}
    /\ ch' = Append(ch, Gauge("snmp_scrape_duration_seconds", "elapsed"))
    /\ pc' = "collected"
    /\ UNCHANGED <<handlerVars, module, walked, result, scrapeErr, oidToPdu, metricTree,
                   todo, calls, dvars, svars>>

\* ServeHTTP returns: the response is written and the duration observed.
HandlerDone ==
    /\ pc = "collected"
    /\ status' = 200
    /\ snmpDuration' = snmpDuration + 1
    /\ pc' = "idle"
    /\ UNCHANGED <<cfg, snmpRequestErrors, requestVars, scrapeVars, dvars, svars>>

Next ==
    \/ Request
    \/ LoadFileError
    \/ LoadFileOk
    \/ MissingTarget
    \/ UnknownModule
    \/ ServeHTTP
    \/ BadPort
    \/ ConnectError
    \/ Connect
    \/ WalkSubtree
    \/ WalkError
    \/ WalkDone
    \/ CollectScrapeError
    \/ CollectPdus
    \/ PduLoopStep
    \/ CollectDone
    \/ HandlerDone

Spec == Init /\ [][Next]_vars

(***************************************************************************)
(* What the specification says of the handler and of Collect.              *)
(***************************************************************************)
\* The OID of the k-th metric of the module, as integers.
MetricOidList(k) == OidToList(module.Metrics[k].Oid)

\* The metrics whose OID is on the path of OID l.
Owners(l) == {k \in 1..Len(module.Metrics) : IsPrefix(MetricOidList(k), l)}

\* The metric the shallowest such node carries: of the metrics with the
\* shortest OID on the path, the one configured last.
Shallowest(l) ==
    CHOOSE k \in Owners(l) :
        \A j \in Owners(l) :
            \/ Len(MetricOidList(k)) < Len(MetricOidList(j))
            \/ Len(MetricOidList(k)) = Len(MetricOidList(j)) /\ j <= k

\* The keys of oidToPdu the loop has visited.
Visited == DOMAIN oidToPdu \ todo

\* The sample observations sent: all but the three bookkeeping ones.
Samples ==
    {i \in 1..Len(ch) :
        ch[i].name \notin {"snmp_scrape_walk_duration_seconds",
                           "snmp_scrape_pdus_returned",
                           "snmp_scrape_duration_seconds"}}

\* C1: when the retrieval of any root fails, whatever was retrieved before,
\* the scrape sends no observation at all, keeps no partial result, and
\* Collect returns without crashing, the request being answered normally.
C1_AllOrNothing ==
    scrapeErr =>
        /\ ch = <<>>
        /\ result = <<>>
        /\ calls = <<>>
        /\ pc \in {"scraped", "collected", "idle"}
        /\ pc = "idle" => status = 200

\* The first of two subtrees was retrieved with PDUs that metrics of the
\* module match, the second failed, and Collect has returned.
C1_Witness ==
    /\ scrapeErr
    /\ pc = "collected"
    /\ Len(module.Walk) = 2
    /\ walked = 1
    /\ \E i \in 1..Len(BulkWalkAll(module.Walk[1])) :
          Owners(OidToList(Tail(BulkWalkAll(module.Walk[1])[i].Name))) # {}
    /\ ch = <<>>

\* C2: a match commits at the shallowest node on the OID's path that carries a
\* metric, returns that metric and hands the decoder the components after that
\* node's depth; an OID with no such node has no match; a metric whose OID
\* has another metric's OID as a strict prefix is never matched.
C2_TrieMatching ==
    /\ \A i \in 1..Len(calls) :
          LET l == OidToList(calls[i].oid)
              k == calls[i].metric
          IN  /\ Owners(l) # {}
              /\ k = Shallowest(l)
              /\ calls[i].indexOids = SubSeq(l, Len(MetricOidList(k)) + 1, Len(l))
              /\ \A j \in 1..Len(module.Metrics) :
                     ~(IsPrefix(MetricOidList(j), MetricOidList(k))
                           /\ MetricOidList(j) # MetricOidList(k))
    /\ \A oid \in Visited :
          (\E i \in 1..Len(calls) : calls[i].oid = oid) <=> Owners(OidToList(oid)) # {}

\* Metrics m1 at "1.1" and m2 at "1.1.2": the PDU at "1.1.2.5" matched m1, the
\* shallower, with index suffix <<2, 5>>.
C2_Witness ==
    /\ Len(module.Metrics) = 2
    /\ module.Metrics[1].Oid = <<49, 46, 49>>
    /\ module.Metrics[2].Oid = <<49, 46, 49, 46, 50>>
    /\ \E i \in 1..Len(calls) :
          /\ calls[i].oid = <<49, 46, 49, 46, 50, 46, 53>>
          /\ calls[i].metric = 1
          /\ calls[i].indexOids = <<2, 5>>

\* C3: after a successful retrieval Collect never fails, and when it has
\* returned the sample observations are as many as the retrieved PDUs whose
\* OID matches a metric, two PDUs of one OID counting twice.
C3_OneSamplePerMatchingPdu ==
    /\ pc # "crashed"
    /\ (pc = "collected" /\ ~scrapeErr) =>
           Cardinality(Samples) =
               Cardinality({i \in 1..Len(result) :
                               Owners(OidToList(Tail(result[i].Name))) # {}})

\* No scrape was started for the request: nothing retrieved, nothing sent.
NoScrape ==
    /\ pc \in {"loadfile", "target", "idle"}
    /\ module = NoModule
    /\ walked = 0
    /\ result = <<>>
    /\ ch = <<>>

\* C8 as stated: a request without target gets a 400, starts no scrape and
\* adds exactly one to the request-error counter, whatever the state of the
\* configuration file.
C8_MissingTarget ==
    (requests > 0 /\ target = "") =>
        /\ NoScrape
        /\ pc = "idle" =>
               /\ status = 400
               /\ snmpRequestErrors = errorsBefore + 1

\* C8 as amended: the counter gets exactly one more when the configuration
\* file loads, and stays as it was when loading it fails.
C8_MissingTargetConfigLoaded ==
    (requests > 0 /\ target = "") =>
        /\ NoScrape
        /\ pc = "idle" =>
               /\ status = 400
               /\ cfg.loaded = "ok" => snmpRequestErrors = errorsBefore + 1
               /\ cfg.loaded = "error" => snmpRequestErrors = errorsBefore

\* A request without target, answered 400 and counted, the configuration loaded.
C8_Witness ==
    /\ requests > 0
    /\ target = ""
    /\ pc = "idle"
    /\ cfg.loaded = "ok"
    /\ status = 400
    /\ snmpRequestErrors = errorsBefore + 1

(***************************************************************************)
(* splitOid on bounded inputs.                                             *)
(***************************************************************************)
SplitComponents == {0, 5, 9}

InitSplit ==
    /\ HandlerAtRest
    /\ DecoderAtRest
    /\ sPc = "call"
    /\ sOid \in SeqsUpTo(SplitComponents, MaxOidLen)
    /\ sCount \in 0..MaxCount
    /\ sHead = <<>>
    /\ sTail = <<>>

SplitOidCall ==
    /\ sPc = "call"
    /\ sPc' = "ret"
    /\ sHead' = splitOid(sOid, sCount).head
    /\ sTail' = splitOid(sOid, sCount).tail
    /\ UNCHANGED <<sOid, sCount, hvars, dvars>>

NextSplit == SplitOidCall

SpecSplit == InitSplit /\ [][NextSplit]_vars

(***************************************************************************)
(* indexesToLabels on bounded inputs, one loop iteration per step.         *)
(***************************************************************************)
\* The label of the k-th Index spec of a metric.
IndexLabel(k) == <<"a", "b", "c", "e">>[k]

IndexLists(types) ==
    UNION {{[k \in 1..n |-> [Labelname |-> IndexLabel(k), Type |-> t[k]]] :
               t \in [1..n -> types]} : n \in 0..MaxIndexes}

\* "1.2.3"
LookupBase == <<49, 46, 50, 46, 51>>

\* PDUs the lookups may find: at "1.2.3.4" an OctetString, at "1.2.3.4.1" an
\* Integer, at "1.2.3.16" an ObjectIdentifier.
LookupPdus ==
    LET k4 == LookupBase \o <<46, 52>>
        k41 == LookupBase \o <<46, 52, 46, 49>>
        k16 == LookupBase \o <<46, 49, 54>>
    IN  (k4 :> [Name |-> <<46>> \o k4, Type |-> "OctetString",
                Value |-> [kind |-> "bytes", v |-> <<108, 111>>]])
        @@ (k41 :> [Name |-> <<46>> \o k41, Type |-> "Integer",
                    Value |-> [kind |-> "int", v |-> 65]])
        @@ (k16 :> [Name |-> <<46>> \o k16, Type |-> "ObjectIdentifier",
                    Value |-> [kind |-> "string", v |-> <<46, 49, 46, 51>>]])

InitDecoder(suffixes, indexLists, lookupLists, pduMaps) ==
    /\ HandlerAtRest
    /\ SplitAtRest
    /\ dPc = "run"
    /\ dIndexOids \in suffixes
    /\ \E ixs \in indexLists, lks \in lookupLists :
          dMetric = [Name |-> "m", Oid |-> <<49>>, Indexes |-> ixs, Lookups |-> lks]
    /\ dOidToPdu \in pduMaps
    /\ dSt = DecodeStart(dIndexOids)
    /\ dI = 0
    /\ dJ = 0
    /\ dLookupOid = <<>>

\* One iteration of the loop over metric.Indexes.
DecodeIndexStep ==
    /\ dPc = "run"
    /\ dI < Len(dMetric.Indexes)
    /\ dSt' = DecodeIndex(dSt, dMetric.Indexes[dI + 1])
    /\ dI' = dI + 1
    /\ dPc' = IF dSt'.panic THEN "panic" ELSE "run"
    /\ UNCHANGED <<dIndexOids, dMetric, dOidToPdu, dJ, dLookupOid, hvars, svars>>

\* One iteration of the loop over metric.Lookups.
LookupStep ==
    /\ dPc = "run"
    /\ dI = Len(dMetric.Indexes)
    /\ dJ < Len(dMetric.Lookups)
    /\ dSt' = PerformLookup(dSt, dMetric.Lookups[dJ + 1], dOidToPdu)
    /\ dLookupOid' = LookupOid(dMetric.Lookups[dJ + 1].Oid,
                               dMetric.Lookups[dJ + 1].Labels, dSt.labelOids)
    /\ dJ' = dJ + 1
    /\ UNCHANGED <<dPc, dIndexOids, dMetric, dOidToPdu, dI, hvars, svars>>

\* return labels
DecodeReturn ==
    /\ dPc = "run"
    /\ dI = Len(dMetric.Indexes)
    /\ dJ = Len(dMetric.Lookups)
    /\ dPc' = "done"
    /\ UNCHANGED <<dIndexOids, dMetric, dOidToPdu, dSt, dI, dJ, dLookupOid,
                   hvars, svars>>

NextDecode == DecodeIndexStep \/ LookupStep \/ DecodeReturn

\* Every index type, an unknown one included, over suffixes short and long.
DecodeComponents == {0, 1, 2, 4, 16, 99}
DecodeTypes == IndexTypes \cup {"Unsigned32"}
DecodeLookupLists ==
    {<<>>, <<[Labels |-> <<"a">>, Labelname |-> "d", Oid |-> LookupBase]>>}

InitDecode ==
    InitDecoder(SeqsUpTo(DecodeComponents, MaxSuffixLen), IndexLists(DecodeTypes),
                DecodeLookupLists, {EmptyMap, LookupPdus})

SpecDecode == InitDecode /\ [][NextDecode]_vars

\* Indexes whose decoding always returns, and every list of lookups over them.
LookupSuffixes == {<<>>, <<4>>, <<16>>, <<4, 16>>}
LookupIndexTypes == {"Integer32", "OctetString"}
LookupSpecs ==
    {[Labels |-> ls, Labelname |-> n, Oid |-> LookupBase] :
        ls \in SeqsUpTo({"a", "b"}, MaxLookupLabels), n \in {"a", "d"}}

InitLookup ==
    InitDecoder(LookupSuffixes, IndexLists(LookupIndexTypes),
                SeqsUpTo(LookupSpecs, MaxLookups), {EmptyMap, LookupPdus})

SpecLookup == InitLookup /\ [][NextDecode]_vars

(***************************************************************************)
(* What the specification says of splitOid and of the index decoder: the   *)
(* positional reading of a suffix, zero-padded where it is short.          *)
(***************************************************************************)
\* The first count components of oid, zero-padded on the right.
PaddedHead(oid, count) == [k \in 1..count |-> IF k <= Len(oid) THEN oid[k] ELSE 0]

\* The components of oid beyond position count.
Beyond(oid, count) == SubSeq(oid, count + 1, Len(oid))

\* How many components an index of type t takes from suffix.
Demand(t, suffix) ==
    CASE t \in {"Integer32", "InetAddressType"} -> 1
      [] t = "PhysAddress48" -> 6
      [] t = "IpAddress" -> 4
      [] t = "OctetString" -> 1 + PaddedHead(suffix, 1)[1]
      [] t = "InetAddress" -> 2 + PaddedHead(suffix, 2)[2]
      [] OTHER -> 0

\* The suffix left for index k of indexes when decoding starts from suffix.
RECURSIVE SuffixAt(_, _, _)
SuffixAt(suffix, indexes, k) ==
    IF k = 1 THEN suffix
    ELSE LET before == SuffixAt(suffix, indexes, k - 1)
         IN  Beyond(before, Demand(indexes[k - 1].Type, before))

\* The components index k consumes.
Consumed(suffix, indexes, k) ==
    LET at == SuffixAt(suffix, indexes, k)
    IN  PaddedHead(at, Demand(indexes[k].Type, at))

\* All that the indexes demand of the suffix.
RECURSIVE TotalDemand(_, _)
TotalDemand(suffix, indexes) ==
    IF indexes = <<>> THEN 0
    ELSE LET d == Demand(Head(indexes).Type, suffix)
         IN  d + TotalDemand(Beyond(suffix, d), Tail(indexes))

\* Octets in decimal, dot-joined.
DottedDecimal(octets) ==
    StringsJoin([i \in 1..Len(octets) |-> FmtD(octets[i])], <<46>>)

\* The index whose decoding has just ended is index dI; it panicked when dPc says so.
DecodedIndexes == IF dPc = "panic" THEN 1..(dI - 1) ELSE 1..dI

\* C10: splitOid(oid, count) returns the first count components of oid,
\* zero-padded on the right, and the components beyond position count, in order.
C10_SplitOid ==
    sPc = "ret" =>
        /\ sHead = PaddedHead(sOid, sCount)
        /\ sTail = Beyond(sOid, sCount)

\* C4: indexesToLabels never fails at run time on a suffix shorter than the
\* indexes demand, the empty suffix included.
C4_ShortInputNeverFails ==
    Len(dIndexOids) < TotalDemand(dIndexOids, dMetric.Indexes) => dPc # "panic"

\* C5: an IpAddress index renders the 4 components it consumes in decimal,
\* dot-joined, and so does an InetAddress index of address type 1 and octet
\* count 4 with its 4 address octets.
C5_IPv4Rendering ==
    \A k \in 1..dI :
        LET index == dMetric.Indexes[k]
            raw == Consumed(dIndexOids, dMetric.Indexes, k)
            rendered == index.Labelname \in DOMAIN dSt.labels
            ipv4 == index.Type = "InetAddress" /\ raw[1] = 1 /\ raw[2] = 4
        IN  /\ index.Type = "IpAddress" =>
                /\ k \in DecodedIndexes
                /\ rendered
                /\ dSt.labels[index.Labelname] = DottedDecimal(raw)
            /\ ipv4 =>
                /\ k \in DecodedIndexes
                /\ rendered
                /\ dSt.labels[index.Labelname] = DottedDecimal(SubSeq(raw, 3, 6))

\* The name the specification gives InetAddressType value v.
InetAddressTypeName(v) ==
    CASE v = 0 -> <<117, 110, 107, 110, 111, 119, 110>>
      [] v = 1 -> <<105, 112, 118, 52>>
      [] v = 2 -> <<105, 112, 118, 54>>
      [] v = 3 -> <<105, 112, 118, 52, 118>>
      [] v = 4 -> <<105, 112, 118, 54, 118>>
      [] v = 16 -> <<100, 110, 115>>
      [] OTHER -> FmtD(v)

\* C6: an InetAddressType index consumes 1 component v and renders it as
\* "unknown", "ipv4", "ipv6", "ipv4v", "ipv6v" or "dns" for 0, 1, 2, 3, 4, 16
\* and as the decimal string of v otherwise.
C6_InetAddressTypeRendering ==
    \A k \in DecodedIndexes :
        LET index == dMetric.Indexes[k]
            raw == Consumed(dIndexOids, dMetric.Indexes, k)
        IN  index.Type = "InetAddressType" =>
                /\ index.Labelname \in DOMAIN dSt.labels
                /\ dSt.labels[index.Labelname] = InetAddressTypeName(raw[1])

\* C9: indexes are consumed left to right, each starting where the one before
\* stopped, and the raw components kept under an index's label are the suffix
\* integers it consumed; an Integer32 label is the decimal string of its one.
C9_PositionalRawComponents ==
    \A k \in DecodedIndexes :
        LET index == dMetric.Indexes[k]
            raw == Consumed(dIndexOids, dMetric.Indexes, k)
        IN  index.Type \in IndexTypes =>
                /\ index.Labelname \in DOMAIN dSt.labelOids
                /\ dSt.labelOids[index.Labelname] = raw
                /\ index.Type = "Integer32" =>
                       dSt.labels[index.Labelname] = FmtD(raw[1])

\* The raw integers recorded for the labels a lookup references, in the
\* declared label order.
RECURSIVE ReferencedRaw(_, _)
ReferencedRaw(labels, labelOids) ==
    IF labels = <<>> THEN <<>>
    ELSE (IF Head(labels) \in DOMAIN labelOids THEN labelOids[Head(labels)] ELSE <<>>)
             \o ReferencedRaw(Tail(labels), labelOids)

\* The base OID followed by those integers in decimal, dot-joined.
TargetOid(lookup, labelOids) ==
    LET raw == ReferencedRaw(lookup.Labels, labelOids)
    IN  StringsJoin(<<lookup.Oid>> \o [i \in 1..Len(raw) |-> FmtD(raw[i])], <<46>>)

====
